---- MODULE Spec2Model ----
(***************************************************************************)
(* CDEC data pull: fetch_cdec, find_earliest_date, fetch_all_in_chunks and *)
(* export_station_all_time, as a state machine over a remote service whose *)
(* data does not change during a run.                                      *)
(*                                                                         *)
(* Dates are proleptic Gregorian ordinals (datetime.date.toordinal), so    *)
(* date + timedelta(days=n) is integer addition and date comparison is <=. *)
(* A timestamp is the ordinal of its day.                                  *)
(***************************************************************************)
EXTENDS Integers, Sequences, FiniteSets, TLC

\* ------------------------------------------------------------------ bounds
\* The year date.today() falls in (an input of every run).
TodayYear == 2026
\* fetch_all_in_chunks inputs: start and end lie in BaseDay .. BaseDay + MaxSpan.
MaxSpan == 3
\* chunk_days ranges over -MaxNegChunk .. MaxChunk.
MaxChunk == 2
MaxNegChunk == 2
\* A run with chunk_days < 0 is followed for at most this many window fetches.
MaxFetches == 4
\* Rows of a payload handed to fetch_cdec directly.
MaxPayload == 3
\* Timestamps a Series handed to the merge of stage and flow may carry.
MaxStamps == 3

\* ---------------------------------------------------------------- calendar
IsLeap(yr) == (yr % 4 = 0) /\ ((yr % 100 # 0) \/ (yr % 400 = 0))

DaysBeforeYear(yr) ==
    365 * (yr - 1) + ((yr - 1) \div 4) - ((yr - 1) \div 100) + ((yr - 1) \div 400)

DaysInMonth(yr, mo) ==
    IF mo = 2 THEN (IF IsLeap(yr) THEN 29 ELSE 28)
    ELSE IF mo \in {4, 6, 9, 11} THEN 30 ELSE 31

RECURSIVE DaysBeforeMonth(_, _)
DaysBeforeMonth(yr, mo) ==
    IF mo = 1 THEN 0 ELSE DaysBeforeMonth(yr, mo - 1) + DaysInMonth(yr, mo - 1)

\* date(yr, mo, dy) as an ordinal.
DateOrd(yr, mo, dy) == DaysBeforeYear(yr) + DaysBeforeMonth(yr, mo) + dy

\* date.year of an ordinal.
YearOf(d) == CHOOSE yr \in (((d - 1) \div 366) + 1)..(((d - 1) \div 365) + 1) :
                 DateOrd(yr, 1, 1) <= d /\ d <= DateOrd(yr, 12, 31)

\* date.today()
today == DateOrd(TodayYear, 11, 4)

\* -------------------------------------------------------------- data model
\* A cell of a DataFrame column: a number, or missing (NaT / NaN).
Cell(n) == [na |-> FALSE, v |-> n]
NA == [na |-> TRUE, v |-> 0]

\* A field of a JSON record as the service sends it: a number (or a string
\* that parses as one), or something pd.to_datetime / pd.to_numeric cannot
\* parse, or null.
Num(n) == [kind |-> "num", n |-> n]
Bad == [kind |-> "bad", n |-> 0]
Null == [kind |-> "null", n |-> 0]

Rec(d, v) == [date |-> d, value |-> v]

\* The sentinel the service uses for a missing reading.
Sentinel == -9999

\* pd.to_datetime(..., errors="coerce") and pd.to_numeric(..., errors="coerce")
ToDatetime(f) == IF f.kind = "num" THEN Cell(f.n) ELSE NA
ToNumeric(f) == IF f.kind = "num" THEN Cell(f.n) ELSE NA

\* df["datetime"].notna() & df["value"].notna()
NotNa(row) == ~row.datetime.na /\ ~row.value.na

\* df["value"] != -9999
NotSentinel(row) == row.value.na \/ row.value.v # Sentinel

\* The rows fetch_cdec keeps.
KeepRow(row) == NotNa(row) /\ NotSentinel(row)

ParseRec(r) == [datetime |-> ToDatetime(r.date), value |-> ToNumeric(r.value)]

\* Lines 23-34 of fetch_cdec: parse and filter, before the sort.
CleanRows(data) ==
    IF data = <<>> THEN <<>>
    ELSE SelectSeq([k \in 1..Len(data) |-> ParseRec(data[k])], KeepRow)

\* Sort key of sort_values("datetime"): missing values go last.
KeyLE(a, b) == IF b.datetime.na THEN TRUE
               ELSE IF a.datetime.na THEN FALSE
               ELSE a.datetime.v <= b.datetime.v
KeyEq(a, b) == KeyLE(a, b) /\ KeyLE(b, a)

RECURSIVE InsertStable(_, _)
InsertStable(s, x) ==
    IF s = <<>> THEN <<x>>
    ELSE IF KeyLE(s[Len(s)], x) THEN Append(s, x)
    ELSE Append(InsertStable(SubSeq(s, 1, Len(s) - 1), x), s[Len(s)])

RECURSIVE StableSort(_)
StableSort(s) ==
    IF s = <<>> THEN <<>>
    ELSE InsertStable(StableSort(SubSeq(s, 1, Len(s) - 1)), s[Len(s)])

RemoveAt(s, k) == SubSeq(s, 1, k - 1) \o SubSeq(s, k + 1, Len(s))

RECURSIVE Perms(_)
Perms(s) ==
    IF Len(s) <= 1 THEN {s}
    ELSE UNION {{<<s[k]>> \o p : p \in Perms(RemoveAt(s, k))} : k \in 1..Len(s)}

\* Length of the leading run of rows that share the first row's key.
RECURSIVE TieLen(_)
TieLen(s) ==
    IF Len(s) <= 1 THEN Len(s)
    ELSE IF KeyEq(s[1], s[2]) THEN 1 + TieLen(Tail(s)) ELSE 1

\* Every ordering of a key-sorted sequence that is still key-sorted.
RECURSIVE TieOrders(_)
TieOrders(s) ==
    IF s = <<>> THEN {<<>>}
    ELSE LET n == TieLen(s)
         IN  {g \o r : g \in Perms(SubSeq(s, 1, n)),
                       r \in TieOrders(SubSeq(s, n + 1, Len(s)))}

\* df.sort_values("datetime"): kind defaults to "quicksort", which pandas
\* documents as not stable, so rows with equal keys may come out in any order.
SortValues(rows) == TieOrders(StableSort(rows))

\* ---------------------------------------------------------------- state
VARIABLES
    svc,             \* the service's records, per sensor number
    sortMemo,        \* the order sort_values gave each input it has sorted
    calls,           \* every fetch_cdec call issued: <<sensor, start, end>>
    failed,          \* a fetch has raised
    afterFail,       \* fetch_cdec calls issued after a fetch raised
    payload, df, tpc,                                 \* fetch_cdec alone
    fpc, f_sensor, pi, earliest_found, y, f_ret, iters,   \* find_earliest_date
    cpc, c_sensor, start_date, end_date, chunk_days, cur, frames, out,
                                                      \* fetch_all_in_chunks
    spc, range_start, range_end, split_day, left, right, joined, full,
                                                      \* split-and-combine run
    epc, earliest_stage, earliest_flow, stage, flow, combined, files
                                                      \* export_station_all_time

svcVars == <<svc, sortMemo, calls, failed, afterFail>>
fetchVars == <<payload, df, tpc>>
findVars == <<fpc, f_sensor, pi, earliest_found, y, f_ret, iters>>
chunkVars == <<cpc, c_sensor, start_date, end_date, chunk_days, cur, frames, out>>
splitVars == <<spc, range_start, range_end, split_day, left, right, joined, full>>
exportVars == <<epc, earliest_stage, earliest_flow, stage, flow, combined, files>>
vars == <<svcVars, fetchVars, findVars, chunkVars, splitVars, exportVars>>

Sensors == {1, 20}
None == -1

\* earliest_found = None
NoDate == None

\* ------------------------------------------------------------ the service
\* The records the service returns for a window: those dated inside it
\* (both ends inclusive), in the order the service holds them.
Service(sensor, s, e) ==
    LET InWindow(r) == r.date.kind = "num" /\ s <= r.date.n /\ r.date.n <= e
    IN  SelectSeq(svc[sensor], InWindow)

\* The frames fetch_cdec may return for a payload: the cleaned rows in an order
\* sort_values can give; the same input is always sorted the same way.
SortedAs(rows) ==
    LET known == {m \in sortMemo : m[1] = rows}
    IN  IF known # {} THEN {m[2] : m \in known} ELSE SortValues(rows)

\* fetch_cdec on a payload: the frames it may return (lines 23-36).
FetchCdec(data) == SortedAs(CleanRows(data))

\* Two rows of a sorted frame share a timestamp.
HasTies(d) == \E k \in 1..(Len(d) - 1) : KeyEq(d[k], d[k + 1])

Remember(rows, d) ==
    IF HasTies(d) THEN sortMemo \cup {<<rows, d>>} ELSE sortMemo

\* One fetch_cdec call whose payload cleans to `rows` and that returns frame d.
Fetched(sensor, s, e, rows, d) ==
    /\ sortMemo' = Remember(rows, d)
    /\ calls' = Append(calls, <<sensor, s, e>>)
    /\ afterFail' = IF failed THEN afterFail + 1 ELSE afterFail
    /\ UNCHANGED <<svc, failed>>

\* One fetch_cdec call that raises (urlopen or json.loads fails).
FetchRaises(sensor, s, e) ==
    /\ calls' = Append(calls, <<sensor, s, e>>)
    /\ afterFail' = IF failed THEN afterFail + 1 ELSE afterFail
    /\ failed' = TRUE
    /\ UNCHANGED <<svc, sortMemo>>

\* df.empty
Empty(d) == d = <<>>

\* df["datetime"].min().date()
RECURSIVE MinDate(_)
MinDate(d) ==
    IF Len(d) = 1 THEN d[1].datetime.v
    ELSE LET m == MinDate(Tail(d))
         IN  IF d[1].datetime.v < m THEN d[1].datetime.v ELSE m

\* An exception leaving a function reaches every caller up to the top.
Unwind(pc) == IF pc = "idle" THEN "idle" ELSE "raised"

RaiseToCallers ==
    /\ epc' = Unwind(epc)
    /\ spc' = Unwind(spc)
    /\ UNCHANGED <<earliest_stage, earliest_flow, stage, flow, combined, files>>
    /\ UNCHANGED <<range_start, range_end, split_day, left, right, joined, full>>

\* ------------------------------------------------------ find_earliest_date
\* The anchors probed most recent first.
probe_years_descending == <<2010, 2000, 1990, 1980, 1970, 1950, 1930, 1900>>

probe_years == <<1900, 1930, 1950, 1970, 1980, 1990, 2000, 2010>>

\* The window of one calendar year: date(yr, 1, 1) .. date(yr, 12, 31).
YearStart(yr) == DateOrd(yr, 1, 1)
YearEnd(yr) == DateOrd(yr, 12, 31)

\* The fallback probe reaching back as far as the anchors do.
FallbackStartFrom1900 == DateOrd(1900, 1, 1)

\* The fallback probe's window start, "2000-01-01".
FallbackStart == DateOrd(2000, 1, 1)

\* The narrowing loop probing the year it has already seen.
PrevStartSameYear(yr) == DateOrd(yr, 1, 1)

\* prev_start and prev_end of the narrowing loop.
PrevStart(yr) == DateOrd(yr - 1, 1, 1)
PrevEnd(yr) == DateOrd(yr - 1, 12, 31)

\* The entry of find_earliest_date(station_id, sensor, dur_code).
CallFind(sensor) ==
    /\ fpc' = "probe"
    /\ f_sensor' = sensor
    /\ pi' = 1
    /\ earliest_found' = NoDate
    /\ y' = NoDate
    /\ f_ret' = NoDate
    /\ iters' = 0

\* One pass of the loop over probe_years (lines 48-54), and the test of
\* line 56 once the loop has ended.
FindProbe ==
    /\ fpc = "probe"
    /\ LET s == YearStart(probe_years[pi])
           e == YearEnd(probe_years[pi])
           rows == CleanRows(Service(f_sensor, s, e))
       IN \E d \in SortedAs(rows) :
        /\ Fetched(f_sensor, s, e, rows, d)
        /\ IF ~Empty(d)
           THEN /\ earliest_found' = MinDate(d)
                /\ y' = YearOf(MinDate(d))
                /\ fpc' = "narrow"
                /\ pi' = pi
           ELSE /\ earliest_found' = earliest_found
                /\ y' = y
                /\ pi' = pi + 1
                /\ fpc' = IF pi = Len(probe_years) THEN "fallback" ELSE "probe"
    /\ UNCHANGED <<f_sensor, f_ret, iters>>
    /\ UNCHANGED <<fetchVars, chunkVars, splitVars, exportVars>>

\* The fallback probe (lines 57-61).
FindFallback ==
    /\ fpc = "fallback"
    /\ LET rows == CleanRows(Service(f_sensor, FallbackStart, today))
       IN \E d \in SortedAs(rows) :
        /\ Fetched(f_sensor, FallbackStart, today, rows, d)
        /\ IF Empty(d)
           THEN /\ fpc' = "no_data"
                /\ f_ret' = f_ret
                /\ RaiseToCallers
           ELSE /\ fpc' = "returned"
                /\ f_ret' = MinDate(d)
                /\ UNCHANGED <<splitVars, exportVars>>
    /\ UNCHANGED <<f_sensor, pi, earliest_found, y, iters>>
    /\ UNCHANGED <<fetchVars, chunkVars>>

\* One test of the while condition of the narrowing loop and, when it holds,
\* one pass of its body (lines 65-74).
FindNarrow ==
    /\ fpc = "narrow"
    /\ IF y > 1900
       THEN LET rows == CleanRows(Service(f_sensor, PrevStart(y), PrevEnd(y)))
            IN \E d \in SortedAs(rows) :
              /\ Fetched(f_sensor, PrevStart(y), PrevEnd(y), rows, d)
              /\ IF Empty(d)
                 THEN /\ fpc' = "returned"
                      /\ f_ret' = earliest_found
                      /\ UNCHANGED <<earliest_found, y, iters>>
                 ELSE /\ earliest_found' = MinDate(d)
                      /\ y' = y - 1
                      /\ iters' = iters + 1
                      /\ UNCHANGED <<fpc, f_ret>>
       ELSE /\ fpc' = "returned"
            /\ f_ret' = earliest_found
            /\ UNCHANGED <<earliest_found, y, iters, svcVars>>
    /\ UNCHANGED <<f_sensor, pi>>
    /\ UNCHANGED <<fetchVars, chunkVars, splitVars, exportVars>>

\* The window of the fetch find_earliest_date is about to issue.
FindPending ==
    IF fpc = "probe" THEN <<YearStart(probe_years[pi]), YearEnd(probe_years[pi])>>
    ELSE IF fpc = "fallback" THEN <<FallbackStart, today>>
    ELSE <<PrevStart(y), PrevEnd(y)>>

\* Where an exception raised by fetch_cdec leaves find_earliest_date: it has
\* no try/except, so the call ends.
FindOnFetchError == "raised"

\* A fetch issued by find_earliest_date raises.
FindFetchRaises ==
    /\ fpc \in {"probe", "fallback"} \/ (fpc = "narrow" /\ y > 1900)
    /\ FetchRaises(f_sensor, FindPending[1], FindPending[2])
    /\ fpc' = FindOnFetchError
    /\ RaiseToCallers
    /\ UNCHANGED <<f_sensor, pi, earliest_found, y, f_ret, iters>>
    /\ UNCHANGED <<fetchVars, chunkVars>>

\* ----------------------------------------------------- fetch_all_in_chunks
Min(a, b) == IF a <= b THEN a ELSE b

\* The window end taken without regard to end_date.
ChunkEndUnclamped(c, cd, e) == c + cd

\* chunk_end = min(cur + timedelta(days=chunk_days), end_date)
ChunkEnd(c, cd, e) == Min(c + cd, e)

\* cur = chunk_end + timedelta(days=1)
NextCur(ce) == ce + 1

\* pd.concat(frames, ignore_index=True)
RECURSIVE Concat(_)
Concat(fs) == IF fs = <<>> THEN <<>> ELSE Concat(SubSeq(fs, 1, Len(fs) - 1)) \o fs[Len(fs)]

\* drop_duplicates(subset=["datetime"]): the first row of each timestamp stays.
DropDuplicates(d) ==
    LET idx == {k \in 1..Len(d) : \A j \in 1..(k - 1) : d[j].datetime # d[k].datetime}
        Pos(k) == Cardinality({j \in idx : j <= k})
    IN  [n \in 1..Cardinality(idx) |-> d[CHOOSE k \in idx : Pos(k) = n]]

\* Lines 93-98: the frames merged into the returned Series.
MergedFrames(fs) ==
    IF fs = <<>> THEN {<<>>} ELSE SortValues(DropDuplicates(Concat(fs)))

\* The entry of fetch_all_in_chunks(station_id, sensor, dur_code, s, e, cd).
CallChunks(sensor, s, e, cd) ==
    /\ cpc' = "loop"
    /\ c_sensor' = sensor
    /\ start_date' = s
    /\ end_date' = e
    /\ chunk_days' = cd
    /\ cur' = s
    /\ frames' = <<>>
    /\ out' = <<>>

\* A run that can never end (chunk_days = -1), or that ends only when cur has
\* moved back past date.min (chunk_days <= -2), is followed for MaxFetches
\* fetches; every other run is followed to its end.
Followed == chunk_days >= 0 \/ Len(frames) < MaxFetches

\* One pass of the while loop (lines 86-91).
ChunkFetch ==
    /\ cpc = "loop"
    /\ cur <= end_date
    /\ Followed
    /\ LET chunk_end == ChunkEnd(cur, chunk_days, end_date)
           rows == CleanRows(Service(c_sensor, cur, chunk_end))
       IN \E d \in SortedAs(rows) :
            /\ Fetched(c_sensor, cur, chunk_end, rows, d)
            /\ frames' = Append(frames, d)
            /\ cur' = NextCur(chunk_end)
    /\ UNCHANGED <<cpc, c_sensor, start_date, end_date, chunk_days, out>>
    /\ UNCHANGED <<fetchVars, findVars, splitVars, exportVars>>

\* The loop has ended: merge and return (lines 93-98).
ChunkReturn ==
    /\ cpc = "loop"
    /\ cur > end_date
    /\ \E d \in MergedFrames(frames) : out' = d
    /\ cpc' = "returned"
    /\ UNCHANGED <<c_sensor, start_date, end_date, chunk_days, cur, frames>>
    /\ UNCHANGED <<svcVars, fetchVars, findVars, splitVars, exportVars>>

\* A failed window swallowed, the loop going on.
ChunkSwallowsFetchError == "loop"

\* Where an exception raised by fetch_cdec leaves fetch_all_in_chunks: the
\* loop has no try/except, so the call ends without a return value.
ChunkOnFetchError == "raised"

\* The fetch of a window raises.
ChunkFetchRaises ==
    /\ cpc = "loop"
    /\ cur <= end_date
    /\ Followed
    /\ FetchRaises(c_sensor, cur, ChunkEnd(cur, chunk_days, end_date))
    /\ cpc' = ChunkOnFetchError
    /\ RaiseToCallers
    /\ UNCHANGED <<c_sensor, start_date, end_date, chunk_days, cur, frames, out>>
    /\ UNCHANGED <<fetchVars, findVars>>

\* ------------------------------------------------- export_station_all_time
\* chunk_days=365 of both collections.
ExportChunkDays == 365

\* stage.rename(columns={"value": "stage_ft"}) and
\* flow.rename(columns={"value": "flow_cfs"}) followed by the join: a row of
\* the merged frame built from row i of stage and row j of flow, 0 standing
\* for no row on that side, whose column is then filled with NaN.
JoinedRow(st, fl, i, j) ==
    [datetime |-> IF i > 0 THEN st[i].datetime ELSE fl[j].datetime,
     stage_ft |-> IF i > 0 THEN st[i].value ELSE NA,
     flow_cfs |-> IF j > 0 THEN fl[j].value ELSE NA]

\* The rows of flow that carry the timestamp of row i of stage.
MatchesOf(st, fl, i) == {j \in 1..Len(fl) : fl[j].datetime = st[i].datetime}

\* A set of <<i, j>> pairs as a sequence, by i and then by j.
PairSeq(ps) ==
    LET Before(p, q) == p[1] < q[1] \/ (p[1] = q[1] /\ p[2] <= q[2])
        At(n) == CHOOSE p \in ps : Cardinality({q \in ps : Before(q, p)}) = n
    IN  [n \in 1..Cardinality(ps) |-> At(n)]

\* The join keeping only the timestamps both frames carry.
InnerJoin(st, fl) ==
    LET ps == PairSeq({<<i, j>> \in (1..Len(st)) \X (1..Len(fl)) :
                          j \in MatchesOf(st, fl, i)})
    IN  [n \in 1..Len(ps) |-> JoinedRow(st, fl, ps[n][1], ps[n][2])]

\* pd.merge(stage, flow, on="datetime", how="outer"): every pair of rows
\* that share a timestamp, every row of stage that no row of flow matches,
\* and every row of flow that no row of stage matches.
OuterJoin(st, fl) ==
    LET both == {<<i, j>> \in (1..Len(st)) \X (1..Len(fl)) :
                    j \in MatchesOf(st, fl, i)}
        leftOnly == {<<i, 0>> : i \in {k \in 1..Len(st) : MatchesOf(st, fl, k) = {}}}
        rightOnly == {j \in 1..Len(fl) :
                         \A i \in 1..Len(st) : j \notin MatchesOf(st, fl, i)}
        ps == PairSeq(both \cup leftOnly)
        rs == PairSeq({<<0, j>> : j \in rightOnly})
    IN  [n \in 1..Len(ps) |-> JoinedRow(st, fl, ps[n][1], ps[n][2])]
        \o [n \in 1..Len(rs) |-> JoinedRow(st, fl, 0, rs[n][2])]

\* pd.merge(stage, flow, on="datetime", how="outer").sort_values("datetime"):
\* the frames line 122 may give.
Merge(st, fl) == SortValues(OuterJoin(st, fl))

\* The three files of lines 125-127.
OutputFiles == {"out_csv", "LCH_stage_ALL.csv", "LCH_flow_ALL.csv"}

\* earliest_stage = find_earliest_date(station_id, 1, dur_code) is called.
ExportStart ==
    /\ epc = "start"
    /\ CallFind(1)
    /\ epc' = "find_stage"
    /\ UNCHANGED <<earliest_stage, earliest_flow, stage, flow, combined, files>>
    /\ UNCHANGED <<svcVars, fetchVars, chunkVars, splitVars>>

\* It has returned; find_earliest_date(station_id, 20, dur_code) is called.
ExportGotEarliestStage ==
    /\ epc = "find_stage"
    /\ fpc = "returned"
    /\ earliest_stage' = f_ret
    /\ CallFind(20)
    /\ epc' = "find_flow"
    /\ UNCHANGED <<earliest_flow, stage, flow, combined, files>>
    /\ UNCHANGED <<svcVars, fetchVars, chunkVars, splitVars>>

\* It has returned; start_date is set and the stage collection is called.
ExportGotEarliestFlow ==
    /\ epc = "find_flow"
    /\ fpc = "returned"
    /\ earliest_flow' = f_ret
    /\ CallChunks(1, Min(earliest_stage, f_ret), today, ExportChunkDays)
    /\ epc' = "chunk_stage"
    /\ UNCHANGED <<earliest_stage, stage, flow, combined, files>>
    /\ UNCHANGED <<svcVars, fetchVars, findVars, splitVars>>

\* The stage collection has returned; the flow collection is called.
ExportGotStage ==
    /\ epc = "chunk_stage"
    /\ cpc = "returned"
    /\ stage' = out
    /\ CallChunks(20, Min(earliest_stage, earliest_flow), today, ExportChunkDays)
    /\ epc' = "chunk_flow"
    /\ UNCHANGED <<earliest_stage, earliest_flow, flow, combined, files>>
    /\ UNCHANGED <<svcVars, fetchVars, findVars, splitVars>>

\* The flow collection has returned; the frames are merged and the three
\* files written (lines 119-127).
ExportWrite ==
    /\ epc = "chunk_flow"
    /\ cpc = "returned"
    /\ flow' = out
    /\ \E c \in Merge(stage, out) : combined' = c
    /\ files' = OutputFiles
    /\ epc' = "done"
    /\ UNCHANGED <<earliest_stage, earliest_flow, stage>>
    /\ UNCHANGED <<svcVars, fetchVars, findVars, chunkVars, splitVars>>

\* ------------------------------------------ one range, split and in one call
\* fetch_all_in_chunks over [start, m] has returned; [m+1, end] is called.
SplitGotLeft ==
    /\ spc = "left"
    /\ cpc = "returned"
    /\ left' = out
    /\ CallChunks(c_sensor, split_day + 1, range_end, chunk_days)
    /\ spc' = "right"
    /\ UNCHANGED <<range_start, range_end, split_day, right, joined, full>>
    /\ UNCHANGED <<svcVars, fetchVars, findVars, exportVars>>

\* It has returned: the two Series are concatenated, de-duplicated (keep
\* first) and sorted; [start, end] is called.
SplitGotRight ==
    /\ spc = "right"
    /\ cpc = "returned"
    /\ right' = out
    /\ \E d \in MergedFrames(<<left, out>>) : joined' = d
    /\ CallChunks(c_sensor, range_start, range_end, chunk_days)
    /\ spc' = "full"
    /\ UNCHANGED <<range_start, range_end, split_day, left, full>>
    /\ UNCHANGED <<svcVars, fetchVars, findVars, exportVars>>

\* It has returned.
SplitGotFull ==
    /\ spc = "full"
    /\ cpc = "returned"
    /\ full' = out
    /\ spc' = "done"
    /\ UNCHANGED <<range_start, range_end, split_day, left, right, joined>>
    /\ UNCHANGED <<svcVars, fetchVars, findVars, chunkVars, exportVars>>

\* ---------------------------------------------------------- initial states
NoService == [s \in Sensors |-> <<>>]

ServiceIdle ==
    /\ sortMemo = {}
    /\ calls = <<>>
    /\ failed = FALSE
    /\ afterFail = 0

FetchIdle == payload = <<>> /\ df = <<>> /\ tpc = "idle"

FindIdle ==
    /\ fpc = "idle"
    /\ f_sensor = 1
    /\ pi = 1
    /\ earliest_found = NoDate
    /\ y = NoDate
    /\ f_ret = NoDate
    /\ iters = 0

ChunkIdle ==
    /\ cpc = "idle"
    /\ c_sensor = 1
    /\ start_date = NoDate
    /\ end_date = NoDate
    /\ chunk_days = 0
    /\ cur = NoDate
    /\ frames = <<>>
    /\ out = <<>>

SplitIdle ==
    /\ spc = "idle"
    /\ range_start = NoDate
    /\ range_end = NoDate
    /\ split_day = NoDate
    /\ left = <<>>
    /\ right = <<>>
    /\ joined = <<>>
    /\ full = <<>>

ExportIdle ==
    /\ epc = "idle"
    /\ earliest_stage = NoDate
    /\ earliest_flow = NoDate
    /\ stage = <<>>
    /\ flow = <<>>
    /\ combined = <<>>
    /\ files = {}

\* The services find_earliest_date is run against: the years with data are
\* up to two runs of consecutive years with ends among EndYears.
EndYears == {1900, 1901, 1929, 1930, 1969, 1970, 2001, 2009, 2010, 2011, TodayYear}

YearRuns == {{}} \cup {lo..hi : lo \in EndYears, hi \in EndYears}

YearPatterns == {a \cup b : a \in YearRuns, b \in YearRuns}

\* The date of the earliest reading of a year that has data.
ReadingDate(yr) ==
    IF yr = 2010 THEN DateOrd(2010, 3, 15)
    ELSE IF yr = 1970 THEN DateOrd(1970, 6, 1)
    ELSE DateOrd(yr, 1, 1) + (yr % 100)

\* Years without data whose window still holds a -9999 record.
SentinelYears == {1999, 2009}

\* The records the service holds, in year order: in a year with data a later
\* reading is listed before the earliest one in every tenth year, and the
\* earliest reading stands alone otherwise.
ServiceRecs(ys) ==
    LET n == TodayYear - 1900 + 1
        YearAt(k) == 1900 + ((k - 1) \div 2)
        Slot(k) ==
            LET yr == YearAt(k)
            IN  IF k % 2 = 1
                THEN (IF yr \in ys /\ yr % 10 = 0
                      THEN Rec(Num(DateOrd(yr, 1, 1) + 200), Num(3))
                      ELSE Rec(Null, Null))
                ELSE (IF yr \in ys THEN Rec(Num(ReadingDate(yr)), Num(4))
                      ELSE IF yr \in SentinelYears
                      THEN Rec(Num(DateOrd(yr, 6, 1)), Num(Sentinel))
                      ELSE Rec(Null, Null))
        Held(r) == r.date.kind = "num"
    IN  SelectSeq([k \in 1..(2 * n) |-> Slot(k)], Held)

InitFind ==
    /\ \E ys \in YearPatterns, sensor \in Sensors :
        /\ svc = [s \in Sensors |-> IF s = sensor THEN ServiceRecs(ys) ELSE <<>>]
        /\ f_sensor = sensor
    /\ ServiceIdle
    /\ FetchIdle
    /\ fpc = "probe"
    /\ pi = 1
    /\ earliest_found = NoDate
    /\ y = NoDate
    /\ f_ret = NoDate
    /\ iters = 0
    /\ ChunkIdle
    /\ SplitIdle
    /\ ExportIdle

NextFind == FindProbe \/ FindFallback \/ FindNarrow \/ FindFetchRaises

SpecFind == InitFind /\ [][NextFind]_vars

\* The first day of the ranges fetch_all_in_chunks is run over: 2020-01-01.
BaseDay == DateOrd(2020, 1, 1)

Reading(k, v) == Rec(Num(BaseDay + k), Num(v))

\* The services fetch_all_in_chunks is run against: none, one or several
\* readings, out of date order, with a -9999 record, and with two readings
\* that share a timestamp.
ChunkServices ==
    { <<>>,
      <<Reading(1, 5)>>,
      <<Reading(2, 7), Reading(0, 5), Reading(1, Sentinel)>>,
      <<Reading(0, 5), Reading(1, 5), Reading(1, 7)>> }

\* The service of scenario C: readings either side of the 30-day mark, two
\* of them sharing the timestamp 2020-01-31.
ScenarioCService ==
    <<Reading(29, 5), Reading(30, 5), Reading(30, 7), Reading(31, 5), Reading(60, 7)>>

ChunkInputs ==
    {<<s, e, cd, recs>> : s \in BaseDay..(BaseDay + MaxSpan),
                          e \in BaseDay..(BaseDay + MaxSpan),
                          cd \in (0 - MaxNegChunk)..MaxChunk,
                          recs \in ChunkServices}
    \cup {<<DateOrd(2020, 1, 1), DateOrd(2020, 3, 1), 30, ScenarioCService>>}

InitChunks ==
    /\ \E in \in ChunkInputs, sensor \in Sensors :
        /\ svc = [s \in Sensors |-> IF s = sensor THEN in[4] ELSE <<>>]
        /\ c_sensor = sensor
        /\ start_date = in[1]
        /\ end_date = in[2]
        /\ chunk_days = in[3]
        /\ cur = in[1]
    /\ cpc = "loop"
    /\ frames = <<>>
    /\ out = <<>>
    /\ ServiceIdle
    /\ FetchIdle
    /\ FindIdle
    /\ SplitIdle
    /\ ExportIdle

NextChunks == ChunkFetch \/ ChunkReturn \/ ChunkFetchRaises

SpecChunks == InitChunks /\ [][NextChunks]_vars

\* The fields a record of a response may carry.
DateFields == {Num(BaseDay), Num(BaseDay + 1), Bad, Null}
ValueFields == {Num(5), Num(Sentinel), Bad}

Records == {Rec(d, v) : d \in DateFields, v \in ValueFields}

\* Every response of at most MaxPayload records (an empty one is also what
\* json.loads gives for null).
Payloads == UNION {[1..n -> Records] : n \in 0..MaxPayload}

InitFetch ==
    /\ payload \in Payloads
    /\ df = <<>>
    /\ tpc = "called"
    /\ svc = NoService
    /\ ServiceIdle
    /\ FindIdle
    /\ ChunkIdle
    /\ SplitIdle
    /\ ExportIdle

\* fetch_cdec returns the frame of its response (lines 23-36).
FetchCdecReturns ==
    /\ tpc = "called"
    /\ \E d \in FetchCdec(payload) :
        /\ df' = d
        /\ sortMemo' = Remember(CleanRows(payload), d)
    /\ tpc' = "returned"
    /\ UNCHANGED <<payload, svc, calls, failed, afterFail>>
    /\ UNCHANGED <<findVars, chunkVars, splitVars, exportVars>>

NextFetch == FetchCdecReturns

SpecFetch == InitFetch /\ [][NextFetch]_vars

\* The services the split run is made against: with and without readings
\* that share a timestamp.
SplitServices ==
    { <<Reading(1, 5)>>,
      <<Reading(2, 7), Reading(0, 5), Reading(1, 7)>>,
      <<Reading(0, 5), Reading(1, 5), Reading(1, 5)>>,
      <<Reading(0, 5), Reading(1, 5), Reading(1, 7)>> }

InitSplit ==
    /\ \E s \in BaseDay..(BaseDay + MaxSpan), e \in BaseDay..(BaseDay + MaxSpan),
          sensor \in Sensors, recs \in SplitServices :
        /\ s <= e
        /\ \E m \in s..e : split_day = m
        /\ range_start = s
        /\ range_end = e
        /\ svc = [x \in Sensors |-> IF x = sensor THEN recs ELSE <<>>]
        /\ c_sensor = sensor
        /\ start_date = s
        /\ cur = s
    /\ end_date = split_day
    /\ chunk_days \in 0..MaxChunk
    /\ cpc = "loop"
    /\ frames = <<>>
    /\ out = <<>>
    /\ spc = "left"
    /\ left = <<>>
    /\ right = <<>>
    /\ joined = <<>>
    /\ full = <<>>
    /\ ServiceIdle
    /\ FetchIdle
    /\ FindIdle
    /\ ExportIdle

NextSplit ==
    \/ ChunkFetch \/ ChunkReturn \/ ChunkFetchRaises
    \/ SplitGotLeft \/ SplitGotRight \/ SplitGotFull

SpecSplit == InitSplit /\ [][NextSplit]_vars

\* The years with data the export is run against, per sensor.
ExportPatterns == {{}, 2010..2011, 2000..2001, {TodayYear - 1, TodayYear}}

InitExport ==
    /\ \E ps \in ExportPatterns, pf \in ExportPatterns :
        svc = [s \in Sensors |-> IF s = 1 THEN ServiceRecs(ps) ELSE ServiceRecs(pf)]
    /\ epc = "start"
    /\ earliest_stage = NoDate
    /\ earliest_flow = NoDate
    /\ stage = <<>>
    /\ flow = <<>>
    /\ combined = <<>>
    /\ files = {}
    /\ ServiceIdle
    /\ FetchIdle
    /\ FindIdle
    /\ ChunkIdle
    /\ SplitIdle

NextExport ==
    \/ ExportStart \/ ExportGotEarliestStage \/ ExportGotEarliestFlow
    \/ ExportGotStage \/ ExportWrite
    \/ FindProbe \/ FindFallback \/ FindNarrow \/ FindFetchRaises
    \/ ChunkFetch \/ ChunkReturn \/ ChunkFetchRaises

SpecExport == InitExport /\ [][NextExport]_vars

\* The readings a Series may hold at one timestamp: none, or a value, zero
\* among them.
Readings == {NA, Cell(0), Cell(5), Cell(100)}

\* Every Series over the timestamps BaseDay .. BaseDay + MaxStamps - 1 as
\* fetch_all_in_chunks returns it: ascending, one row per timestamp at most.
SeriesInputs ==
    LET Held(row) == ~row.value.na
    IN  {SelectSeq([k \in 1..MaxStamps |->
                       [datetime |-> Cell(BaseDay + k - 1), value |-> f[k]]], Held) :
            f \in [1..MaxStamps -> Readings]}

\* export_station_all_time at the return of its second collection, with the
\* stage Series in hand and the flow Series returned.
InitCombine ==
    /\ stage \in SeriesInputs
    /\ out \in SeriesInputs
    /\ epc = "chunk_flow"
    /\ cpc = "returned"
    /\ c_sensor = 20
    /\ start_date = BaseDay
    /\ end_date = BaseDay + MaxStamps - 1
    /\ chunk_days = ExportChunkDays
    /\ cur = BaseDay + MaxStamps
    /\ frames = <<out>>
    /\ earliest_stage = BaseDay
    /\ earliest_flow = BaseDay
    /\ flow = <<>>
    /\ combined = <<>>
    /\ files = {}
    /\ svc = NoService
    /\ ServiceIdle
    /\ FetchIdle
    /\ FindIdle
    /\ SplitIdle

NextCombine == ExportWrite

SpecCombine == InitCombine /\ [][NextCombine]_vars

\* ================================================= find_earliest_date claims
\* The cleaned rows the service has for the calendar year yr of a sensor.
RowsOfYear(sensor, yr) ==
    CleanRows(Service(sensor, DateOrd(yr, 1, 1), DateOrd(yr, 12, 31)))

YearHasData(sensor, yr) == RowsOfYear(sensor, yr) # <<>>

AnchorYears == {1900, 1930, 1950, 1970, 1980, 1990, 2000, 2010}

AllAnchorsEmpty == \A a \in AnchorYears : ~YearHasData(f_sensor, a)

\* The first anchor year, in ascending order, whose window has data.
FirstAnchor ==
    CHOOSE a \in AnchorYears :
        /\ YearHasData(f_sensor, a)
        /\ \A b \in AnchorYears : b < a => ~YearHasData(f_sensor, b)

\* The smallest year Y <= a with data in every year of Y..a.
RunStart(a) ==
    CHOOSE yy \in 1900..a :
        /\ \A z \in yy..a : YearHasData(f_sensor, z)
        /\ (yy = 1900 \/ ~YearHasData(f_sensor, yy - 1))

\* C1: when find_earliest_date returns a date, no window of an earlier
\* calendar year (1900 onwards) would return a non-empty Series.
C1_ReturnsEarliestDate ==
    fpc = "returned" =>
        \A yr \in 1900..(YearOf(f_ret) - 1) : ~YearHasData(f_sensor, yr)

\* The cleaned rows of the fallback window [2000-01-01, today].
FallbackRows == CleanRows(Service(f_sensor, DateOrd(2000, 1, 1), today))

\* C2: when all eight anchor probes are empty, exactly one further fetch is
\* issued, over [2000-01-01, today]; the call fails with the no-data error
\* iff that fetch is empty too, and otherwise returns its minimum date
\* without entering the narrowing loop.
C2_FallbackAfterEmptyAnchors ==
    AllAnchorsEmpty =>
        /\ fpc # "narrow"
        /\ iters = 0
        /\ fpc \in {"returned", "no_data"} =>
            /\ Len(calls) = 9
            /\ \A k \in 1..8 :
                 calls[k] = <<f_sensor, DateOrd(probe_years[k], 1, 1),
                                        DateOrd(probe_years[k], 12, 31)>>
            /\ calls[9] = <<f_sensor, DateOrd(2000, 1, 1), today>>
            /\ (fpc = "no_data") <=> (FallbackRows = <<>>)
            /\ fpc = "returned" => f_ret = MinDate(FallbackRows)

C2_Witness ==
    /\ AllAnchorsEmpty
    /\ fpc = "returned"
    /\ Len(calls) = 9
    /\ f_ret = DateOrd(2001, 1, 2)

\* The service of scenario A: anchors 1900-2000 empty, 2010 non-empty with
\* minimum 2010-03-15, 2009 empty.
ScenarioA ==
    /\ \A a \in AnchorYears \ {2010} : ~YearHasData(f_sensor, a)
    /\ YearHasData(f_sensor, 2010)
    /\ MinDate(RowsOfYear(f_sensor, 2010)) = DateOrd(2010, 3, 15)
    /\ ~YearHasData(f_sensor, 2009)

\* C3: when the first non-empty anchor is year a, the call returns the
\* minimum date of the window of year Y, the smallest year with data in every
\* year of Y..a, having probed the anchors up to a, the years a-1 down to Y
\* and (unless Y = 1900) the empty year Y-1; in scenario A it returns
\* 2010-03-15.
C3_NarrowsToRunStart ==
    (fpc = "returned" /\ ~AllAnchorsEmpty) =>
        LET a == FirstAnchor
            Y == RunStart(a)
            np == Cardinality({b \in AnchorYears : b <= a})
        IN  /\ f_ret = MinDate(RowsOfYear(f_sensor, Y))
            /\ iters = a - Y
            /\ Len(calls) = np + (a - Y) + (IF Y > 1900 THEN 1 ELSE 0)
            /\ \A k \in 1..(Len(calls) - np) :
                 calls[np + k] = <<f_sensor, DateOrd(a - k, 1, 1),
                                             DateOrd(a - k, 12, 31)>>
            /\ ScenarioA => f_ret = DateOrd(2010, 3, 15)

C3_Witness ==
    /\ fpc = "returned"
    /\ ScenarioA
    /\ f_ret = DateOrd(2010, 3, 15)
    /\ calls[Len(calls)] = <<f_sensor, DateOrd(2009, 1, 1), DateOrd(2009, 12, 31)>>

\* The service of scenario B: 1970 non-empty with minimum 1970-06-01 and
\* every year from 1969 back through 1900 non-empty.
ScenarioB ==
    /\ \A yr \in 1900..1970 : YearHasData(f_sensor, yr)
    /\ MinDate(RowsOfYear(f_sensor, 1970)) = DateOrd(1970, 6, 1)

\* C4 as stated: in scenario B the call returns the minimum date of the 1900
\* window after exactly 70 passes of the narrowing loop.
C4_SeventyIterations ==
    (fpc = "returned" /\ ScenarioB) =>
        /\ f_ret = MinDate(RowsOfYear(f_sensor, 1900))
        /\ iters = 70

\* C4 as amended: in scenario B the call returns the minimum date of the 1900
\* window after no pass of the narrowing loop, the probe of anchor 1900 being
\* its only fetch.
C4_ScenarioBNeedsNoNarrowing ==
    (fpc = "returned" /\ ScenarioB) =>
        /\ f_ret = MinDate(RowsOfYear(f_sensor, 1900))
        /\ iters = 0
        /\ calls = <<<<f_sensor, DateOrd(1900, 1, 1), DateOrd(1900, 12, 31)>>>>

C4_Witness ==
    /\ fpc = "returned"
    /\ ScenarioB
    /\ f_ret = MinDate(RowsOfYear(f_sensor, 1900))

\* ================================================ fetch_all_in_chunks claims
WinStart(k) == calls[k][2]
WinEnd(k) == calls[k][3]

\* Days two issued windows have in common.
Overlap(j, k) == {dd \in WinStart(j)..WinEnd(j) : WinStart(k) <= dd /\ dd <= WinEnd(k)}

\* No two rows of a frame share a timestamp.
NoDuplicateTimestamps(d) ==
    \A j \in 1..Len(d), k \in 1..Len(d) : j # k => d[j].datetime # d[k].datetime

ScenarioC ==
    /\ start_date = DateOrd(2020, 1, 1)
    /\ end_date = DateOrd(2020, 3, 1)
    /\ chunk_days = 30

\* C5: windows are chunk_days long, so that collecting 2020-01-01..2020-03-01
\* with chunk_days = 30 issues exactly 3 window fetches, no two overlapping in
\* more than a shared boundary day, and the merged Series has no duplicate
\* timestamp.
C5_ScenarioCThreeWindows ==
    (cpc = "returned" /\ ScenarioC) =>
        /\ Len(calls) = 3
        /\ \A k \in 1..Len(calls) : WinEnd(k) - WinStart(k) + 1 <= chunk_days
        /\ \A j \in 1..Len(calls), k \in 1..Len(calls) :
             j # k => Cardinality(Overlap(j, k)) <= 1
        /\ NoDuplicateTimestamps(out)

\* What the code does in scenario C: two windows of 31 days each,
\* 2020-01-01..2020-01-31 and 2020-02-01..2020-03-01, sharing no day, and a
\* merged Series without duplicate timestamps.
C5_ScenarioCAsCoded ==
    (cpc = "returned" /\ ScenarioC) =>
        /\ calls = <<<<c_sensor, DateOrd(2020, 1, 1), DateOrd(2020, 1, 31)>>,
                     <<c_sensor, DateOrd(2020, 2, 1), DateOrd(2020, 3, 1)>>>>
        /\ NoDuplicateTimestamps(out)
        /\ Len(out) = 4

\* C7: for chunk_days >= 0 the windows passed to the Fetcher are issued in
\* ascending order, are consecutive and non-overlapping, none extends past
\* end, and once the call has returned they contain every day of [start, end]
\* exactly once; when start > end no fetch is issued and an empty Series is
\* returned.
C7_WindowsPartitionRange ==
    (cpc \in {"loop", "returned", "raised"} /\ chunk_days >= 0) =>
        /\ \A k \in 1..Len(calls) :
             /\ WinStart(k) <= WinEnd(k)
             /\ WinEnd(k) <= end_date
             /\ WinStart(k) = IF k = 1 THEN start_date ELSE WinEnd(k - 1) + 1
        /\ cpc = "returned" =>
             /\ \A dd \in start_date..end_date :
                  Cardinality({k \in 1..Len(calls) :
                                  WinStart(k) <= dd /\ dd <= WinEnd(k)}) = 1
             /\ start_date > end_date => (calls = <<>> /\ out = <<>>)

C7_Witness ==
    /\ cpc = "returned"
    /\ chunk_days = 1
    /\ start_date = BaseDay
    /\ end_date = BaseDay + 2
    /\ calls = <<<<c_sensor, BaseDay, BaseDay + 1>>, <<c_sensor, BaseDay + 2, BaseDay + 2>>>>

\* C8: a call with chunk_days < 0 and start <= end is rejected: it fetches
\* no window and does not loop.
C8_NegativeChunkDaysRejected ==
    (cpc # "idle" /\ chunk_days < 0 /\ start_date <= end_date) =>
        /\ calls = <<>>
        /\ cpc \in {"loop", "raised"}
        /\ cpc = "loop" => (frames = <<>> /\ cur = start_date)

\* What the code does with chunk_days < 0: it never returns, every window it
\* fetches starts after it ends, and with chunk_days = -1 cur never moves.
C8_NegativeChunkDaysAsCoded ==
    (cpc # "idle" /\ chunk_days < 0 /\ start_date <= end_date) =>
        /\ cpc # "returned"
        /\ \A k \in 1..Len(calls) : WinEnd(k) < WinStart(k)
        /\ cur <= start_date
        /\ chunk_days = 0 - 1 => cur = start_date

\* ========================================================= fetch_cdec claims
\* C6: every row fetch_cdec returns has a non-null timestamp, a non-null
\* value and a value other than -9999, and the rows are strictly sorted by
\* timestamp, no two sharing one.
C6_CleanStrictlySorted ==
    tpc = "returned" =>
        /\ \A k \in 1..Len(df) :
             /\ ~df[k].datetime.na
             /\ ~df[k].value.na
             /\ df[k].value.v # -9999
        /\ \A k \in 1..(Len(df) - 1) : df[k].datetime.v < df[k + 1].datetime.v

\* What the code does: the rows are clean and sorted, and every clean record
\* of the response is returned, those that share a timestamp included.
C6_CleanSortedAsCoded ==
    tpc = "returned" =>
        /\ \A k \in 1..Len(df) :
             /\ ~df[k].datetime.na
             /\ ~df[k].value.na
             /\ df[k].value.v # -9999
        /\ \A k \in 1..(Len(df) - 1) : df[k].datetime.v <= df[k + 1].datetime.v
        /\ Len(df) = Cardinality({k \in 1..Len(payload) :
                         /\ payload[k].date.kind = "num"
                         /\ payload[k].value.kind = "num"
                         /\ payload[k].value.n # -9999})

TiesAgree ==
    \A sensor \in Sensors :
        LET rows == CleanRows(svc[sensor])
        IN  \A j \in 1..Len(rows), k \in 1..Len(rows) :
                rows[j].datetime = rows[k].datetime => rows[j].value = rows[k].value

\* What the code does: the two agree whenever the records that share a
\* timestamp agree in value.
C9_SplitEqualsFullWhenTiesAgree == (spc = "done" /\ TiesAgree) => joined = full

\* ================================================== failure propagation claim
\* C10: once a fetch has failed no further fetch is issued (no retry, no
\* later window), find_earliest_date and fetch_all_in_chunks have ended
\* without a return value, and export_station_all_time has ended having
\* written none of its files.
C10_FailurePropagates ==
    failed =>
        /\ afterFail = 0
        /\ fpc \in {"idle", "returned", "raised"}
        /\ cpc \in {"idle", "returned", "raised"}
        /\ fpc = "raised" \/ cpc = "raised"
        /\ cpc = "raised" => (out = <<>> /\ fpc = "returned")
        /\ fpc = "raised" => (f_ret = NoDate /\ cpc \in {"idle"})
        /\ epc = "raised"
        /\ files = {}
        /\ combined = <<>>

C10_Witness ==
    /\ failed
    /\ epc = "raised"
    /\ cpc = "raised"
    /\ Len(frames) >= 2
    /\ frames[1] # <<>>
    /\ files = {}

\* ============================================================ combine claim
\* The timestamps of a frame.
Stamps(d) == {d[k].datetime.v : k \in 1..Len(d)}

\* The reading a Series holds for a timestamp, or the missing cell when it
\* holds none.
ValueAt(d, t) ==
    IF t \in Stamps(d)
    THEN d[CHOOSE k \in 1..Len(d) : d[k].datetime.v = t].value
    ELSE NA

\* Stage {t1: 5.0} and flow {t2: 100.0} with t1 # t2.
ScenarioD ==
    /\ Len(stage) = 1 /\ Len(flow) = 1
    /\ stage[1].value = Cell(5)
    /\ flow[1].value = Cell(100)
    /\ stage[1].datetime # flow[1].datetime

\* C11: the combined frame has exactly one row for every timestamp present
\* in the stage or the flow Series, in ascending order of timestamp; each row
\* carries the reading of either Series at its timestamp, and the missing
\* cell (not zero) where that Series has none; stage {t1: 5.0} and flow
\* {t2: 100.0} with t1 # t2 give two rows with exactly one field populated.
C11_OuterJoinOneRowPerTimestamp ==
    epc = "done" =>
        /\ Stamps(combined) = Stamps(stage) \cup Stamps(flow)
        /\ Len(combined) = Cardinality(Stamps(stage) \cup Stamps(flow))
        /\ \A k \in 1..(Len(combined) - 1) :
             combined[k].datetime.v < combined[k + 1].datetime.v
        /\ \A k \in 1..Len(combined) :
             /\ ~combined[k].datetime.na
             /\ combined[k].stage_ft = ValueAt(stage, combined[k].datetime.v)
             /\ combined[k].flow_cfs = ValueAt(flow, combined[k].datetime.v)
             /\ combined[k].stage_ft.na <=> combined[k].datetime.v \notin Stamps(stage)
             /\ combined[k].flow_cfs.na <=> combined[k].datetime.v \notin Stamps(flow)
        /\ ScenarioD =>
             /\ Len(combined) = 2
             /\ \A k \in 1..2 : combined[k].stage_ft.na # combined[k].flow_cfs.na

C11_Witness ==
    /\ epc = "done"
    /\ ScenarioD
    /\ Len(combined) = 2
    /\ combined[1].stage_ft = Cell(5) /\ combined[1].flow_cfs = NA
    /\ combined[2].stage_ft = NA /\ combined[2].flow_cfs = Cell(100)

====
